---- MODULE Spec2Model ----
(***************************************************************************)
(* Model of bin/syndication.py: the syndication (RSS/ATOM/RDF) modular     *)
(* input.  A run of one stanza is a state machine over the persisted       *)
(* checkpoint, the feed behind the URL and the events handed to the sink.  *)
(*                                                                         *)
(* Python values are tagged records.  A Python string is a sequence of     *)
(* symbols (a symbol is one character, or a field name taken as a whole);  *)
(* string concatenation is \o.  A struct_time is its wall-clock reading t  *)
(* (in hours) and its tm_isdst flag; tuples compare field by field, so the *)
(* wall clock decides first and tm_isdst breaks ties (tm_wday and tm_yday  *)
(* are functions of the wall clock).                                       *)
(***************************************************************************)
EXTENDS Integers, Sequences, FiniteSets, TLC

\* ------------------------------------------------------------------ bounds
MaxDate == 2
MaxLen == 2
MaxNow == 2
MaxDepth == 3

\* ------------------------------------------------------- python values
None == [kind |-> "NoneType"]
PyBool(b) == [kind |-> "bool", b |-> b]
PyInt(n) == [kind |-> "int", n |-> n]
PyStr(s) == [kind |-> "str", s |-> s]
PyList(items) == [kind |-> "list", items |-> items]
PyDict(pairs) == [kind |-> "dict", pairs |-> pairs]
struct_time(t, isdst) == [kind |-> "struct_time", t |-> t, isdst |-> isdst]

\* Python 2 tuple ordering of two struct_time values.
TupleGT(a, b) == a.t > b.t \/ (a.t = b.t /\ a.isdst > b.isdst)

\* Python 2 ">" where either side may be None: None sorts below everything.
PyGT(a, b) ==
    IF a = None THEN FALSE
    ELSE IF b = None THEN TRUE
    ELSE TupleGT(a, b)

PyLE(a, b) == ~PyGT(a, b)

\* str() of a non-negative integer, as a sequence of digit symbols.
RECURSIVE Digits(_)
Digits(n) == IF n < 10 THEN <<ToString(n)>> ELSE Digits(n \div 10) \o <<ToString(n % 10)>>

\* ------------------------------------------------------- the local time zone
\* The zone of the host: offset from UTC in hours, and whether daylight saving
\* time (one hour) is in effect from epoch `from` onwards.
UTC == [offset |-> 0, dst |-> FALSE, from |-> 0]
Summer == [offset |-> 1, dst |-> TRUE, from |-> 1]
Zones == {UTC, Summer}

InDst(zone, epoch) == zone.dst /\ epoch >= zone.from

\* time.mktime: the struct_time read as local time, tm_isdst saying whether its
\* wall clock is a daylight-saving reading.
mktime(zone, st) == st.t - zone.offset - st.isdst

\* Mutant of localtime: time.gmtime in its place.
gmtime_for_localtime(zone, epoch) == struct_time(epoch, 0)

\* time.localtime: the epoch as local wall clock, with tm_isdst set.
localtime(zone, epoch) ==
    IF InDst(zone, epoch)
    THEN struct_time(epoch + zone.offset + 1, 1)
    ELSE struct_time(epoch + zone.offset, 0)

\* time.strftime('%Y-%m-%dT%H:%M:%SZ', item): the wall clock, tm_isdst dropped.
strftime(st) == <<"T">> \o Digits(st.t) \o <<"Z">>

\* ------------------------------------------------------- feed entries
\* An entry of the parsed feed is a mapping; the fields the input looks at are
\* updated_parsed and published_parsed, each missing, None or a UTC struct_time.
Dates == 1..MaxDate
FieldValues == {None} \cup {struct_time(d, 0) : d \in Dates}
DateFields == {"updated_parsed", "published_parsed"}
Entries == UNION {[F -> FieldValues] : F \in SUBSET DateFields}

get_updated_date(entry) ==
    IF "updated_parsed" \in DOMAIN entry THEN entry["updated_parsed"]
    ELSE IF "published_parsed" \in DOMAIN entry THEN entry["published_parsed"]
    ELSE None

\* The entry as the dict that flatten walks (updated_parsed first).
EntryDict(entry) ==
    PyDict((IF "updated_parsed" \in DOMAIN entry
            THEN << <<(<<"updated_parsed">>), entry["updated_parsed"]>> >> ELSE <<>>)
        \o (IF "published_parsed" \in DOMAIN entry
            THEN << <<(<<"published_parsed">>), entry["published_parsed"]>> >> ELSE <<>>))

\* ------------------------------------------------------- flatten
\* dictionary[name] = value
Store(dictionary, name, value) ==
    [k \in DOMAIN dictionary \cup {name} |-> IF k = name THEN value ELSE dictionary[k]]

\* item in [True, False, None]: list membership is by ==, and in Python
\* 1 == True and 0 == False.
InPlainValues(item) ==
    \/ item.kind = "bool"
    \/ item = None
    \/ (item.kind = "int" /\ item.n \in {0, 1})

\* str(item) of a scalar.
str(item) ==
    IF item.kind = "int" THEN Digits(item.n)
    ELSE item.s

RECURSIVE flatten(_, _, _)
RECURSIVE flatten_dict(_, _, _, _)
RECURSIVE flatten_list(_, _, _, _)

flatten(item, dictionary, name) ==
    LET iterative_name == IF Len(name) > 0 THEN name \o <<".">> ELSE name
    IN  IF item.kind = "dict" THEN flatten_dict(item.pairs, 1, dictionary, iterative_name)
        ELSE IF item.kind = "list" THEN flatten_list(item.items, 0, dictionary, iterative_name)
        ELSE IF InPlainValues(item) THEN Store(dictionary, name, item)
        ELSE IF item.kind = "struct_time" THEN Store(dictionary, name, PyStr(strftime(item)))
        ELSE Store(dictionary, name, PyStr(str(item)))

\* for key in item: cls.flatten(item[key], dictionary, iterative_name + key)
flatten_dict(pairs, i, dictionary, iterative_name) ==
    IF i > Len(pairs) THEN dictionary
    ELSE flatten_dict(pairs, i + 1,
                      flatten(pairs[i][2], dictionary, iterative_name \o pairs[i][1]),
                      iterative_name)

\* for a in item: cls.flatten(a, dictionary, iterative_name + str(index))
flatten_list(items, index, dictionary, iterative_name) ==
    IF index >= Len(items) THEN dictionary
    ELSE flatten_list(items, index + 1,
                      flatten(items[index + 1], dictionary, iterative_name \o Digits(index)),
                      iterative_name)

EmptyDict == [k \in {} |-> None]

\* flatten(entry) as get_feed calls it: a fresh dictionary and the empty name.
FlattenedEntries == [entry \in Entries |-> flatten(EntryDict(entry), EmptyDict, <<>>)]

flatten_entry(entry) == FlattenedEntries[entry]

\* ------------------------------------------------------- get_feed
\* Mutant of Skipped: "<" for "<=".
Skipped_strict(entry_date, include_later_than) ==
    /\ entry_date # None
    /\ include_later_than # None
    /\ PyGT(include_later_than, entry_date)

\* Whether the loop body reaches `continue` for this entry.
Skipped(entry_date, include_later_than) ==
    /\ entry_date # None
    /\ include_later_than # None
    /\ PyLE(entry_date, include_later_than)

\* Mutant of NextLatest: the date of the last dated entry, not the greatest.
NextLatest_last(latest_date, entry_date) ==
    IF entry_date # None THEN entry_date ELSE latest_date

\* latest_date after the loop body has seen entry_date.
NextLatest(latest_date, entry_date) ==
    IF entry_date # None /\ (latest_date = None \/ PyGT(entry_date, latest_date))
    THEN entry_date
    ELSE latest_date

RECURSIVE get_feed_loop(_, _, _, _, _)
get_feed_loop(d_entries, i, entries, latest_date, include_later_than) ==
    IF i > Len(d_entries) THEN [entries |-> entries, latest_date |-> latest_date]
    ELSE LET entry == d_entries[i]
             entry_date == get_updated_date(entry)
         IN  get_feed_loop(d_entries, i + 1,
                 IF Skipped(entry_date, include_later_than)
                 THEN entries
                 ELSE Append(entries, flatten_entry(entry)),
                 NextLatest(latest_date, entry_date),
                 include_later_than)

\* get_feed(feed_url, return_latest_date=True, include_later_than=...)
get_feed(d_entries, include_later_than) ==
    get_feed_loop(d_entries, 1, <<>>, None, include_later_than)

\* ------------------------------------------------------- the checkpoint file
\* The file of the stanza in checkpoint_dir: missing, unreadable as JSON, or the
\* saved dict (a function from its keys to numbers).
Missing == [state |-> "missing"]
Corrupt == [state |-> "corrupt"]
Saved(data) == [state |-> "ok", data |-> data]

\* get_checkpoint_data(checkpoint_dir, stanza, throw_errors=True) inside the
\* try of run: IOError and ValueError both leave checkpoint_data = None.
get_checkpoint_data(file) == IF file.state = "ok" THEN file.data ELSE None

\* Mutant of save_checkpoint: last_entry_date is never written.
save_checkpoint_nodate(zone, last_run, last_entry_date_arg) ==
    Saved([last_run |-> last_run])

\* save_checkpoint: the dict handed to save_checkpoint_data.
save_checkpoint(zone, last_run, last_entry_date_arg) ==
    IF last_entry_date_arg # None
    THEN Saved([last_run |-> last_run, last_entry_date |-> mktime(zone, last_entry_date_arg)])
    ELSE Saved([last_run |-> last_run])

\* interval of cleaned_params, in hours.
Interval == 1

\* ModularInput.needs_another_run: due when no last_run can be read from the
\* checkpoint or the interval has passed since it.
needs_another_run(file, interval, cur_time) ==
    IF file.state = "ok" /\ "last_run" \in DOMAIN file.data
    THEN cur_time >= file.data["last_run"] + interval
    ELSE TRUE

\* ModularInput.get_non_deviated_last_run: the current time on a first run or
\* when the schedule was missed, else the previous run plus the interval.
get_non_deviated_last_run(last_ran, interval, cur_time) ==
    IF last_ran = None THEN cur_time
    ELSE IF last_ran.n + interval < cur_time - interval THEN cur_time
    ELSE last_ran.n + interval

\* ------------------------------------------------------- state
VARIABLES
    tz,                         \* the zone of the host
    now,                        \* time.time(), in hours
    checkpoint,                 \* the checkpoint file of the stanza
    feed,                       \* d.entries as feedparser.parse last returned them
    pc,                         \* position of run: "idle", "fetch", "emit"
    include_only_changed,       \* locals of run, as the current or last run left them
    checkpoint_data,
    last_entry_date,
    results,
    last_entry_date_retrieved,
    last_ran,                   \* local of run, line 173: what goes to get_non_deviated_last_run
    output,                     \* events handed to output_event by the current or last run
    outcome,                    \* how the last invocation of run ended
    faultfree,                  \* history: no run was interrupted during emission and the
                                \* checkpoint file was never lost or damaged
    undisturbed,                \* history: faultfree, and every run had include_only_changed
    delivered,                  \* history, kept while faultfree: the events of dated entries
                                \* that earlier runs emitted
    rerun,                      \* history: phase "first" after a completed first import (no
                                \* threshold, include_only_changed, every entry dated) of
                                \* the feed it names, "again" after a completed run that
                                \* repeated it on the same feed and checkpoint, else "no"
    interrupted,                \* history: what the last interrupted run had emitted, while
                                \* the run after it sees the same checkpoint, option and feed
    item,                       \* flatten on its own: the value handed to it
    dictionary,                 \* flatten on its own: the dictionary it returned
    other                       \* overlapping invocations: the position, locals and
                                \* events of a second invocation of run on the stanza

vars == <<tz, now, checkpoint, feed, pc, include_only_changed, checkpoint_data,
          last_entry_date, results, last_entry_date_retrieved, last_ran, output,
          outcome, faultfree, undisturbed, delivered, rerun, interrupted, item, dictionary,
          other>>

locals == <<include_only_changed, checkpoint_data, last_entry_date, results,
            last_entry_date_retrieved, last_ran>>

history == <<faultfree, undisturbed, delivered, rerun, interrupted>>

flat == <<item, dictionary>>

\* What feedparser.parse may return to a run: up to MaxLen entries, each with at
\* most one of the two date fields.
RunEntries == {e \in Entries : Cardinality(DOMAIN e) <= 1}
Feeds(n) == [1..n -> RunEntries]

Range(s) == {s[i] : i \in DOMAIN s}

\* The events of the entries that have a date.
DatedEvents == {flatten_entry(e) : e \in {x \in Entries : get_updated_date(x) # None}}

AllDated(f) == \A i \in DOMAIN f : get_updated_date(f[i]) # None

NotInterrupted == [valid |-> FALSE]

NoRerun == [phase |-> "no"]

\* The second invocation before it has started.
NotStarted ==
    [pc |-> "idle", include_only_changed |-> TRUE, checkpoint_data |-> None,
     last_entry_date |-> None, feed |-> <<>>, results |-> <<>>,
     last_entry_date_retrieved |-> None, last_ran |-> None, output |-> <<>>,
     outcome |-> "none"]

Init ==
    /\ tz \in Zones
    /\ now = 0
    /\ checkpoint = Missing
    /\ feed = <<>>
    /\ pc = "idle"
    /\ include_only_changed = TRUE
    /\ checkpoint_data = None
    /\ last_entry_date = None
    /\ results = <<>>
    /\ last_entry_date_retrieved = None
    /\ last_ran = None
    /\ output = <<>>
    /\ outcome = "none"
    /\ faultfree = TRUE
    /\ undisturbed = TRUE
    /\ delivered = {}
    /\ rerun = NoRerun
    /\ interrupted = NotInterrupted
    /\ item = None
    /\ dictionary = EmptyDict
    /\ other = NotStarted

\* ------------------------------------------------------- run
\* Mutant of RunNotDue: the gate is not consulted, the run goes on to the fetch.
RunNotDue_ungated ==
    /\ pc = "idle"
    /\ ~needs_another_run(checkpoint, Interval, now)
    /\ outcome' = "running"
    /\ pc' = "fetch"
    /\ results' = <<>>
    /\ output' = <<>>
    /\ UNCHANGED <<flat, other>>
    /\ UNCHANGED <<tz, now, checkpoint, feed, include_only_changed, checkpoint_data,
                   last_entry_date, last_entry_date_retrieved, last_ran, history>>

\* run, line 148: the interval gate says no, run returns.
RunNotDue ==
    /\ pc = "idle"
    /\ ~needs_another_run(checkpoint, Interval, now)
    /\ outcome' = "not_due"
    /\ UNCHANGED <<flat, other>>
    /\ UNCHANGED <<tz, now, checkpoint, feed, pc, locals, output, history>>

\* Mutant of RunDue: the ValueError of an unreadable checkpoint is not caught.
RunDue_uncaught(ioc) ==
    /\ pc = "idle"
    /\ needs_another_run(checkpoint, Interval, now)
    /\ include_only_changed' = ioc
    /\ checkpoint_data' = get_checkpoint_data(checkpoint)
    /\ last_entry_date' =
          IF ioc /\ checkpoint_data' # None /\ "last_entry_date" \in DOMAIN checkpoint_data'
          THEN localtime(tz, checkpoint_data'["last_entry_date"])
          ELSE None
    /\ results' = <<>>
    /\ last_entry_date_retrieved' = None
    /\ last_ran' = None
    /\ output' = <<>>
    /\ outcome' = IF checkpoint = Corrupt THEN "load_failed" ELSE "running"
    /\ pc' = IF checkpoint = Corrupt THEN "idle" ELSE "fetch"
    /\ undisturbed' = (undisturbed /\ ioc)
    /\ rerun' = IF ioc THEN rerun ELSE NoRerun
    /\ interrupted' = IF interrupted.valid /\ interrupted.include_only_changed = ioc
                      THEN interrupted ELSE NotInterrupted
    /\ UNCHANGED <<flat, other>>
    /\ feed' = <<>>
    /\ UNCHANGED <<tz, now, checkpoint, delivered, faultfree>>

\* Mutant of RunDue: the threshold is taken from the checkpoint whatever
\* include_only_changed says.
RunDue_alwaysThreshold(ioc) ==
    /\ pc = "idle"
    /\ needs_another_run(checkpoint, Interval, now)
    /\ include_only_changed' = ioc
    /\ checkpoint_data' = get_checkpoint_data(checkpoint)
    /\ last_entry_date' =
          IF checkpoint_data' # None /\ "last_entry_date" \in DOMAIN checkpoint_data'
          THEN localtime(tz, checkpoint_data'["last_entry_date"])
          ELSE None
    /\ results' = <<>>
    /\ last_entry_date_retrieved' = None
    /\ last_ran' = None
    /\ output' = <<>>
    /\ outcome' = "running"
    /\ pc' = "fetch"
    /\ undisturbed' = (undisturbed /\ ioc)
    /\ rerun' = IF ioc THEN rerun ELSE NoRerun
    /\ interrupted' = IF interrupted.valid /\ interrupted.include_only_changed = ioc
                      THEN interrupted ELSE NotInterrupted
    /\ UNCHANGED <<flat, other>>
    /\ feed' = <<>>
    /\ UNCHANGED <<tz, now, checkpoint, delivered, faultfree>>

\* run, lines 148-162: the gate says yes, the checkpoint is loaded and the
\* threshold for get_feed is computed.
RunDue(ioc) ==
    /\ pc = "idle"
    /\ needs_another_run(checkpoint, Interval, now)
    /\ include_only_changed' = ioc
    /\ checkpoint_data' = get_checkpoint_data(checkpoint)
    /\ last_entry_date' =
          IF ioc /\ checkpoint_data' # None /\ "last_entry_date" \in DOMAIN checkpoint_data'
          THEN localtime(tz, checkpoint_data'["last_entry_date"])
          ELSE None
    /\ results' = <<>>
    /\ last_entry_date_retrieved' = None
    /\ last_ran' = None
    /\ output' = <<>>
    /\ outcome' = "running"
    /\ pc' = "fetch"
    /\ undisturbed' = (undisturbed /\ ioc)
    /\ rerun' = IF ioc THEN rerun ELSE NoRerun
    /\ interrupted' = IF interrupted.valid /\ interrupted.include_only_changed = ioc
                      THEN interrupted ELSE NotInterrupted
    /\ UNCHANGED <<flat, other>>
    /\ feed' = <<>>
    /\ UNCHANGED <<tz, now, checkpoint, delivered, faultfree>>

\* run, line 165: feedparser.parse returns the entries f, get_feed returns.
Fetch(f) ==
    /\ pc = "fetch"
    /\ feed' = f
    /\ LET r == get_feed(f, last_entry_date)
       IN  /\ results' = r.entries
           /\ last_entry_date_retrieved' = r.latest_date
    /\ pc' = "emit"
    /\ rerun' = IF rerun.phase # "no" /\ rerun.feed = f THEN rerun ELSE NoRerun
    /\ interrupted' = IF interrupted.valid /\ interrupted.feed = f
                      THEN interrupted ELSE NotInterrupted
    /\ UNCHANGED <<flat, other>>
    /\ UNCHANGED <<tz, now, checkpoint, include_only_changed, checkpoint_data,
                   last_entry_date, last_ran, output, outcome, delivered, faultfree,
                   undisturbed>>

\* Mutant of FetchFail: the checkpoint is saved on the way out.
FetchFail_saving ==
    /\ pc = "fetch"
    /\ pc' = "idle"
    /\ outcome' = "fetch_failed"
    /\ checkpoint' = save_checkpoint(tz, now, last_entry_date)
    /\ rerun' = NoRerun
    /\ interrupted' = NotInterrupted
    /\ UNCHANGED <<flat, other>>
    /\ UNCHANGED <<tz, now, feed, locals, output, delivered, faultfree, undisturbed>>

\* run, line 165: feedparser.parse raises; the exception leaves run.
FetchFail ==
    /\ pc = "fetch"
    /\ pc' = "idle"
    /\ outcome' = "fetch_failed"
    /\ rerun' = NoRerun
    /\ interrupted' = NotInterrupted
    /\ UNCHANGED <<flat, other>>
    /\ UNCHANGED <<tz, now, checkpoint, feed, locals, output, delivered, faultfree,
                   undisturbed>>

\* Mutant of Emit: the loop walks results from the end.
Emit_lastFirst ==
    /\ pc = "emit"
    /\ Len(output) < Len(results)
    /\ output' = Append(output, results[Len(results) - Len(output)])
    /\ UNCHANGED <<flat, other>>
    /\ UNCHANGED <<tz, now, checkpoint, feed, pc, locals, outcome, delivered,
                   faultfree, undisturbed, rerun, interrupted>>

\* run, lines 169-170: one output_event.
Emit ==
    /\ pc = "emit"
    /\ Len(output) < Len(results)
    /\ output' = Append(output, results[Len(output) + 1])
    /\ UNCHANGED <<flat, other>>
    /\ UNCHANGED <<tz, now, checkpoint, feed, pc, locals, outcome, delivered,
                   faultfree, undisturbed, rerun, interrupted>>

\* run, lines 169-182: output_event or the checkpoint write raises, or the
\* process dies, before save_checkpoint_data has written.
Abort ==
    /\ pc = "emit"
    /\ pc' = "idle"
    /\ outcome' = "interrupted"
    /\ faultfree' = FALSE
    /\ undisturbed' = FALSE
    /\ delivered' = {}
    /\ rerun' = NoRerun
    /\ interrupted' = [valid |-> TRUE, include_only_changed |-> include_only_changed,
                       feed |-> feed, output |-> output]
    /\ UNCHANGED <<flat, other>>
    /\ UNCHANGED <<tz, now, checkpoint, feed, locals, output>>

\* run, lines 172-182: last_ran, the new last_entry_date, save_checkpoint.
SaveCheckpoint ==
    /\ last_ran' = IF checkpoint_data # None /\ "last_ran" \in DOMAIN checkpoint_data
                    THEN PyInt(checkpoint_data["last_ran"])
                    ELSE None
    /\ LET new_date == IF last_entry_date_retrieved # None
                          /\ PyGT(last_entry_date_retrieved, last_entry_date)
                       THEN last_entry_date_retrieved
                       ELSE last_entry_date
       IN  checkpoint' = save_checkpoint(tz,
                             get_non_deviated_last_run(last_ran', Interval, now), new_date)
    /\ pc' = "idle"
    /\ outcome' = "completed"
    /\ delivered' = IF faultfree THEN delivered \cup (Range(output) \cap DatedEvents) ELSE {}
    /\ rerun' = IF rerun.phase # "no" THEN [phase |-> "again", feed |-> feed]
                ELSE IF include_only_changed /\ last_entry_date = None
                        /\ feed # <<>> /\ AllDated(feed)
                THEN [phase |-> "first", feed |-> feed] ELSE NoRerun
    /\ interrupted' = NotInterrupted
    /\ UNCHANGED <<flat, other>>
    /\ UNCHANGED <<tz, now, feed, include_only_changed, checkpoint_data, last_entry_date,
                   results, last_entry_date_retrieved, output, faultfree, undisturbed>>

\* Mutant of Save: the checkpoint is saved without waiting for the loop to end.
Save_early ==
    /\ pc = "emit"
    /\ SaveCheckpoint

\* Mutant of Save: the date saved is merged with the date the file holds at
\* the time of the write, as a locked read-modify-write would.
Save_merging ==
    /\ pc = "emit"
    /\ Len(output) = Len(results)
    /\ last_ran' = None
    /\ LET own == IF last_entry_date_retrieved # None
                     /\ PyGT(last_entry_date_retrieved, last_entry_date)
                  THEN last_entry_date_retrieved
                  ELSE last_entry_date
           held == IF checkpoint.state = "ok" /\ "last_entry_date" \in DOMAIN checkpoint.data
                   THEN localtime(tz, checkpoint.data["last_entry_date"])
                   ELSE None
       IN  checkpoint' = save_checkpoint(tz, now, IF PyGT(held, own) THEN held ELSE own)
    /\ pc' = "idle"
    /\ outcome' = "completed"
    /\ delivered' = IF faultfree THEN delivered \cup (Range(output) \cap DatedEvents) ELSE {}
    /\ rerun' = NoRerun
    /\ interrupted' = NotInterrupted
    /\ UNCHANGED <<flat, other>>
    /\ UNCHANGED <<tz, now, feed, include_only_changed, checkpoint_data, last_entry_date,
                   results, last_entry_date_retrieved, output, faultfree, undisturbed>>

\* run, lines 169-182: every result is out, then the checkpoint is saved.
Save ==
    /\ pc = "emit"
    /\ Len(output) = Len(results)
    /\ SaveCheckpoint

\* ------------------------------------------------------- the environment
Tick ==
    /\ now < MaxNow
    /\ now' = now + 1
    /\ UNCHANGED <<flat, other>>
    /\ UNCHANGED <<tz, checkpoint, feed, pc, locals, output, outcome, delivered,
                   faultfree, undisturbed, rerun, interrupted>>

\* The checkpoint file is removed, or damaged so that it no longer parses.
CheckpointDamage(file) ==
    /\ pc = "idle"
    /\ checkpoint.state = "ok"
    /\ checkpoint' = file
    /\ faultfree' = FALSE
    /\ undisturbed' = FALSE
    /\ delivered' = {}
    /\ rerun' = NoRerun
    /\ interrupted' = NotInterrupted
    /\ UNCHANGED <<flat, other>>
    /\ UNCHANGED <<tz, now, feed, pc, locals, output, outcome>>

Next ==
    \/ RunNotDue
    \/ \E ioc \in BOOLEAN : RunDue(ioc)
    \/ pc = "fetch" /\ \E n \in 0..MaxLen : \E f \in Feeds(n) : Fetch(f)
    \/ FetchFail
    \/ Emit
    \/ Abort
    \/ Save
    \/ Tick
    \/ \E file \in {Missing, Corrupt} : CheckpointDamage(file)

Spec == Init /\ [][Next]_vars

\* ------------------------------------------------------- get_feed on its own
\* Any feed of up to MaxLen entries against any threshold.
AllFeeds(n) == [1..n -> Entries]
Thresholds == {None} \cup {struct_time(t, i) : t \in 0..(MaxDate + 1), i \in {0, 1}}

InitFeed ==
    /\ tz = UTC
    /\ now = 0
    /\ checkpoint = Missing
    /\ feed = <<>>
    /\ pc = "fetch"
    /\ include_only_changed = TRUE
    /\ checkpoint_data = None
    /\ last_entry_date \in Thresholds
    /\ results = <<>>
    /\ last_entry_date_retrieved = None
    /\ last_ran = None
    /\ output = <<>>
    /\ outcome = "running"
    /\ faultfree = TRUE
    /\ undisturbed = TRUE
    /\ delivered = {}
    /\ rerun = NoRerun
    /\ interrupted = NotInterrupted
    /\ item = None
    /\ dictionary = EmptyDict
    /\ other = NotStarted

NextFeed == pc = "fetch" /\ \E n \in 0..MaxLen : \E f \in AllFeeds(n) : Fetch(f)

SpecFeed == InitFeed /\ [][NextFeed]_vars

\* ------------------------------------------------------- flatten on its own
\* The value handed to flatten is built from a leaf, wrapped in lists and dicts
\* up to MaxDepth deep, each with up to MaxLen members.
Leaves == {PyBool(TRUE), PyBool(FALSE), None, PyInt(0), PyInt(1), PyInt(2),
           PyStr(<<"x">>), struct_time(1, 0)}
Siblings == {PyInt(1), None}
Keys == {<<"a">>, <<"b">>, <<"c">>, <<"a", ".", "b">>}

RECURSIVE Depth(_)
Depth(v) ==
    IF v.kind = "dict"
    THEN 1 + (IF v.pairs = <<>> THEN 0
              ELSE CHOOSE m \in {Depth(v.pairs[i][2]) : i \in DOMAIN v.pairs} :
                       \A i \in DOMAIN v.pairs : Depth(v.pairs[i][2]) <= m)
    ELSE IF v.kind = "list"
    THEN 1 + (IF v.items = <<>> THEN 0
              ELSE CHOOSE m \in {Depth(v.items[i]) : i \in DOMAIN v.items} :
                       \A i \in DOMAIN v.items : Depth(v.items[i]) <= m)
    ELSE 0

InitFlatten ==
    /\ tz = UTC
    /\ now = 0
    /\ checkpoint = Missing
    /\ feed = <<>>
    /\ pc = "build"
    /\ include_only_changed = TRUE
    /\ checkpoint_data = None
    /\ last_entry_date = None
    /\ results = <<>>
    /\ last_entry_date_retrieved = None
    /\ last_ran = None
    /\ output = <<>>
    /\ outcome = "none"
    /\ faultfree = TRUE
    /\ undisturbed = TRUE
    /\ delivered = {}
    /\ rerun = NoRerun
    /\ interrupted = NotInterrupted
    /\ item \in Leaves
    /\ dictionary = EmptyDict
    /\ other = NotStarted

machine == <<tz, now, checkpoint, feed, locals, output, outcome, history, other>>

WrapList ==
    /\ pc = "build"
    /\ Depth(item) < MaxDepth
    /\ item' = PyList(<<item>>)
    /\ UNCHANGED <<machine, pc, dictionary>>

ExtendList(leaf) ==
    /\ pc = "build"
    /\ item.kind = "list"
    /\ Depth(item) < MaxDepth
    /\ Len(item.items) < MaxLen
    /\ item' = PyList(Append(item.items, leaf))
    /\ UNCHANGED <<machine, pc, dictionary>>

WrapDict(key) ==
    /\ pc = "build"
    /\ Depth(item) < MaxDepth
    /\ item' = PyDict(<< <<key, item>> >>)
    /\ UNCHANGED <<machine, pc, dictionary>>

ExtendDict(key, leaf) ==
    /\ pc = "build"
    /\ item.kind = "dict"
    /\ Depth(item) < MaxDepth
    /\ Len(item.pairs) < MaxLen
    /\ \A i \in DOMAIN item.pairs : item.pairs[i][1] # key
    /\ item' = PyDict(<< <<key, leaf>> >> \o item.pairs)
    /\ UNCHANGED <<machine, pc, dictionary>>

\* flatten(item), dictionary and name defaulted.
Flatten ==
    /\ pc = "build"
    /\ dictionary' = flatten(item, EmptyDict, <<>>)
    /\ pc' = "flattened"
    /\ UNCHANGED <<machine, item>>

NextFlatten ==
    \/ WrapList
    \/ \E leaf \in Siblings : ExtendList(leaf)
    \/ \E key \in Keys : WrapDict(key)
    \/ \E key \in Keys, leaf \in Siblings : ExtendDict(key, leaf)
    \/ Flatten

SpecFlatten == InitFlatten /\ [][NextFlatten]_vars

\* ------------------------------------------------------- overlapping invocations
\* run takes no lock, so a second invocation of run on the same stanza can
\* start while the first is between its load and its save.  Its locals are
\* the fields of `other`; its steps are the steps of run.
OverlapEntries == {[updated_parsed |-> struct_time(d, 0)] : d \in Dates}
OverlapFeeds == UNION {[1..n -> OverlapEntries] : n \in 0..MaxLen}

\* The stanza one interval after a run that completed at time 0, or before
\* its first run.
InitOverlap ==
    /\ tz = UTC
    /\ now = 1
    /\ checkpoint \in {Missing, Saved([last_run |-> 0])}
                      \cup {Saved([last_run |-> 0, last_entry_date |-> d]) : d \in Dates}
    /\ feed = <<>>
    /\ pc = "idle"
    /\ include_only_changed = TRUE
    /\ checkpoint_data = None
    /\ last_entry_date = None
    /\ results = <<>>
    /\ last_entry_date_retrieved = None
    /\ last_ran = None
    /\ output = <<>>
    /\ outcome = "none"
    /\ faultfree = TRUE
    /\ undisturbed = TRUE
    /\ delivered = {}
    /\ rerun = NoRerun
    /\ interrupted = NotInterrupted
    /\ item = None
    /\ dictionary = EmptyDict
    /\ other = NotStarted

first == <<tz, now, feed, pc, locals, output, outcome, history>>

\* run, lines 148-162, in the second invocation.
OtherRunDue(ioc) ==
    /\ other.pc = "idle"
    /\ needs_another_run(checkpoint, Interval, now)
    /\ LET data == get_checkpoint_data(checkpoint)
       IN  other' = [pc |-> "fetch",
                     include_only_changed |-> ioc,
                     checkpoint_data |-> data,
                     last_entry_date |->
                         IF ioc /\ data # None /\ "last_entry_date" \in DOMAIN data
                         THEN localtime(tz, data["last_entry_date"])
                         ELSE None,
                     feed |-> <<>>,
                     results |-> <<>>,
                     last_entry_date_retrieved |-> None,
                     last_ran |-> None,
                     output |-> <<>>,
                     outcome |-> "running"]
    /\ UNCHANGED <<first, checkpoint, flat>>

\* run, line 165, in the second invocation.
OtherFetch(f) ==
    /\ other.pc = "fetch"
    /\ LET r == get_feed(f, other.last_entry_date)
       IN  other' = [other EXCEPT !.pc = "emit", !.feed = f, !.results = r.entries,
                                  !.last_entry_date_retrieved = r.latest_date]
    /\ UNCHANGED <<first, checkpoint, flat>>

\* run, lines 169-170, in the second invocation.
OtherEmit ==
    /\ other.pc = "emit"
    /\ Len(other.output) < Len(other.results)
    /\ other' = [other EXCEPT !.output = Append(@, other.results[Len(@) + 1])]
    /\ UNCHANGED <<first, checkpoint, flat>>

\* run, lines 172-182, in the second invocation.
OtherSave ==
    /\ other.pc = "emit"
    /\ Len(other.output) = Len(other.results)
    /\ LET ran == IF other.checkpoint_data # None
                     /\ "last_ran" \in DOMAIN other.checkpoint_data
                  THEN PyInt(other.checkpoint_data["last_ran"])
                  ELSE None
           new_date == IF other.last_entry_date_retrieved # None
                          /\ PyGT(other.last_entry_date_retrieved, other.last_entry_date)
                       THEN other.last_entry_date_retrieved
                       ELSE other.last_entry_date
       IN  /\ checkpoint' = save_checkpoint(tz,
                                 get_non_deviated_last_run(ran, Interval, now), new_date)
           /\ other' = [other EXCEPT !.pc = "idle", !.last_ran = ran,
                                      !.outcome = "completed"]
    /\ UNCHANGED <<first, flat>>

NextOverlap ==
    \/ \E ioc \in BOOLEAN : RunDue(ioc)
    \/ pc = "fetch" /\ \E f \in OverlapFeeds : Fetch(f)
    \/ Emit
    \/ Save
    \/ \E ioc \in BOOLEAN : OtherRunDue(ioc)
    \/ other.pc = "fetch" /\ \E f \in OverlapFeeds : OtherFetch(f)
    \/ OtherEmit
    \/ OtherSave

SpecOverlap == InitOverlap /\ [][NextOverlap]_vars

\* ======================================================= properties of run
EmitStep == pc = "emit" /\ pc' = "emit" /\ Len(output') = Len(output) + 1

Emitted == output'[Len(output')]

IsPrefix(a, b) == Len(a) <= Len(b) /\ SubSeq(b, 1, Len(a)) = a

\* The later of two dates, an absent one losing to a present one.
LaterOf(a, b) ==
    IF a = None THEN b
    ELSE IF b = None THEN a
    ELSE IF TupleGT(b, a) THEN b ELSE a

RECURSIVE MaxEntryDate(_)
MaxEntryDate(f) ==
    IF f = <<>> THEN None
    ELSE LaterOf(MaxEntryDate(Tail(f)), get_updated_date(Head(f)))

AllEvents(f) == [i \in DOMAIN f |-> flatten_entry(f[i])]

HasEntryDate(file) == file.state = "ok" /\ "last_entry_date" \in DOMAIN file.data

\* The file holds exactly this date (or none, for None).
HoldsDate(file, date) ==
    /\ file.state = "ok"
    /\ IF date = None THEN "last_entry_date" \notin DOMAIN file.data
       ELSE /\ "last_entry_date" \in DOMAIN file.data
            /\ file.data["last_entry_date"] = mktime(tz, date)

C2_CheckpointAfterEmission ==
    [][/\ (pc # "idle" /\ checkpoint' # checkpoint) => (pc = "emit" /\ output = results)
       /\ (pc = "emit" /\ outcome' = "interrupted") =>
              /\ checkpoint' = checkpoint
              /\ get_checkpoint_data(checkpoint') = checkpoint_data
       /\ (pc' = "emit" /\ interrupted'.valid) => IsPrefix(interrupted'.output, results')
      ]_vars

\* C2: the run after an interrupted one has emitted again what that one had.
C2_Witness ==
    /\ pc = "emit"
    /\ interrupted.valid
    /\ interrupted.output # <<>>
    /\ output = interrupted.output
    /\ Len(results) > Len(output)
    /\ HasEntryDate(checkpoint)

\* C3: when the fetch fails the run ends with no event emitted and the
\* checkpoint file as the run found and loaded it.
C3_FetchFailureKeepsState ==
    [][(pc = "fetch" /\ pc' = "idle") =>
           /\ checkpoint' = checkpoint
           /\ get_checkpoint_data(checkpoint') = checkpoint_data
           /\ output' = <<>>
      ]_vars

\* C3: a fetch has failed in a run that had a checkpoint with an entry date.
C3_Witness ==
    /\ pc = "idle"
    /\ outcome = "fetch_failed"
    /\ HasEntryDate(checkpoint)
    /\ output = <<>>

\* C4: with include_only_changed and every entry dated, the first import (no
\* threshold) emits every entry and saves the greatest entry date; a run that
\* follows on the unchanged feed emits nothing and leaves that date saved.
C4_RerunEmitsNothing ==
    /\ (rerun.phase = "first" /\ pc = "idle") =>
           /\ feed = rerun.feed
           /\ output = AllEvents(feed)
           /\ HoldsDate(checkpoint, MaxEntryDate(feed))
    /\ rerun.phase = "again" =>
           /\ output = <<>>
           /\ MaxEntryDate(rerun.feed) # None
           /\ HoldsDate(checkpoint, MaxEntryDate(rerun.feed))

\* C4: the second run on an unchanged feed of two different entries is over.
C4_Witness ==
    /\ rerun.phase = "again"
    /\ pc = "idle"
    /\ outcome = "completed"
    /\ feed = rerun.feed
    /\ Len(feed) = 2
    /\ feed[1] # feed[2]

\* The date in the checkpoint that the run loaded.
PreviousDate ==
    IF checkpoint_data # None /\ "last_entry_date" \in DOMAIN checkpoint_data
    THEN localtime(tz, checkpoint_data["last_entry_date"])
    ELSE None

\* C5, as claimed: whatever include_only_changed is, a completed run saves the
\* later of the date in the checkpoint it loaded and the latest_date of
\* get_feed, so the saved date neither decreases nor disappears.
C5_SavedDateIsMaximum ==
    [][(pc = "emit" /\ outcome' = "completed") =>
           HoldsDate(checkpoint', LaterOf(PreviousDate, last_entry_date_retrieved))]_vars

\* C8: with the checkpoint missing or unreadable, a due run goes on to the
\* fetch with no threshold, get_feed returns every entry of the feed, and the
\* run that completes has emitted them all and writes a checkpoint.
C8_NoCheckpointRun ==
    [][/\ (pc = "idle" /\ outcome' # outcome /\ checkpoint \in {Missing, Corrupt}) =>
              /\ pc' = "fetch"
              /\ checkpoint_data' = None
              /\ last_entry_date' = None
       /\ (pc' = "emit" /\ checkpoint' \in {Missing, Corrupt}) => results' = AllEvents(feed')
       /\ (pc = "emit" /\ checkpoint \in {Missing, Corrupt} /\ outcome' = "completed") =>
              /\ output = AllEvents(feed)
              /\ checkpoint'.state = "ok"
              /\ "last_run" \in DOMAIN checkpoint'.data
      ]_vars

\* C8: a run with include_only_changed that found the checkpoint unreadable
\* has emitted every entry of a feed with dated entries.
C8_Witness ==
    /\ pc = "emit"
    /\ checkpoint = Corrupt
    /\ include_only_changed
    /\ output = results
    /\ Len(results) = 2
    /\ AllDated(feed)

\* The date that the last completed run handed to save_checkpoint.
SavedDate ==
    IF last_entry_date_retrieved # None /\ PyGT(last_entry_date_retrieved, last_entry_date)
    THEN last_entry_date_retrieved
    ELSE last_entry_date

\* C10, as claimed: the date a completed run saved comes back, in the next run
\* with include_only_changed, as a threshold that compares equal to it.
C10_CheckpointRoundTrip ==
    [][(/\ pc = "idle" /\ outcome = "completed" /\ checkpoint.state = "ok"
        /\ SavedDate # None
        /\ pc' = "fetch" /\ include_only_changed') =>
           /\ last_entry_date' # None
           /\ ~TupleGT(last_entry_date', SavedDate)
           /\ ~TupleGT(SavedDate, last_entry_date')
      ]_vars

\* The last_run of the checkpoint that the run loaded.
PriorLastRun ==
    IF checkpoint_data # None /\ "last_run" \in DOMAIN checkpoint_data
    THEN PyInt(checkpoint_data["last_run"])
    ELSE None

\* C12, as claimed: the value a completing run hands to
\* get_non_deviated_last_run is the last_run of the checkpoint it loaded, and
\* None only when it loaded no checkpoint.
C12_HelperGetsPriorLastRun ==
    [][(pc = "emit" /\ outcome' = "completed") => last_ran' = PriorLastRun]_vars

\* C13, as claimed: while every run has include_only_changed and none was
\* disturbed, each dated entry of the feed of a completed run has been emitted
\* by that run or by an earlier one, an entry dated at the stored
\* last_entry_date too.
C13_NoDatedEntryMissed ==
    (pc = "idle" /\ outcome = "completed" /\ undisturbed) =>
        \A i \in DOMAIN feed :
            get_updated_date(feed[i]) # None => flatten_entry(feed[i]) \in delivered

\* C14: an invocation of run that finds the interval gate closed returns at
\* once: the checkpoint file is as it was, nothing is loaded from it, nothing
\* is fetched or emitted, and the input stays idle.
C14_NotDueDoesNothing ==
    [][(pc = "idle" /\ ~needs_another_run(checkpoint, Interval, now) /\ outcome' # outcome) =>
           /\ outcome' = "not_due"
           /\ pc' = "idle"
           /\ UNCHANGED <<checkpoint, feed, output, locals, now>>
      ]_vars

\* C14: run was invoked before the interval had passed since a completed run
\* that saved an entry date and emitted events.
C14_Witness ==
    /\ pc = "idle"
    /\ outcome = "not_due"
    /\ HasEntryDate(checkpoint)
    /\ output # <<>>
    /\ ~needs_another_run(checkpoint, Interval, now)

\* C15: a due run passes to get_feed a threshold exactly when
\* include_only_changed is set and the checkpoint it loaded has a
\* last_entry_date, and the threshold is then that date as local time; a run
\* without include_only_changed gets back, and when it completes has emitted,
\* every entry of the feed.
C15_ThresholdOnlyWhenChanged ==
    [][/\ (pc = "idle" /\ pc' = "fetch") =>
              /\ (last_entry_date' # None) <=> (include_only_changed' /\ HasEntryDate(checkpoint))
              /\ last_entry_date' # None =>
                     last_entry_date' = localtime(tz, checkpoint.data["last_entry_date"])
       /\ (pc = "fetch" /\ pc' = "emit" /\ ~include_only_changed) =>
              results' = AllEvents(feed')
       /\ (pc = "emit" /\ outcome' = "completed" /\ ~include_only_changed) =>
              output = AllEvents(feed)
      ]_vars

\* C15: a run without include_only_changed has emitted both entries of a feed
\* although the checkpoint holds a date that neither entry is later than.
C15_Witness ==
    /\ pc = "emit"
    /\ ~include_only_changed
    /\ HasEntryDate(checkpoint)
    /\ Len(feed) = 2
    /\ AllDated(feed)
    /\ \A i \in DOMAIN feed :
           PyLE(get_updated_date(feed[i]), localtime(tz, checkpoint.data["last_entry_date"]))
    /\ output = AllEvents(feed)

\* The positions of the feed that the threshold does not exclude.
KeptPositions(f, include_later_than) ==
    {i \in DOMAIN f :
        ~(/\ get_updated_date(f[i]) # None
          /\ include_later_than # None
          /\ ~TupleGT(get_updated_date(f[i]), include_later_than))}

\* events is, in the order of the feed, the events of the kept positions.
InFeedOrder(events, f, include_later_than) ==
    LET kept == KeptPositions(f, include_later_than)
    IN  /\ Len(events) = Cardinality(kept)
        /\ \E g \in [DOMAIN events -> kept] :
               /\ \A j, k \in DOMAIN events : j < k => g[j] < g[k]
               /\ \A k \in DOMAIN events : events[k] = flatten_entry(f[g[k]])

\* C17: get_feed returns the events of the retained entries in the order of
\* the feed, and run hands them to the sink in that order, one event for each:
\* what is out is always the front of results, and all of it on completion.
C17_EmittedInFeedOrder ==
    [][/\ (pc = "fetch" /\ pc' = "emit") => InFeedOrder(results', feed', last_entry_date')
       /\ EmitStep => (results' = results /\ output' = SubSeq(results, 1, Len(output) + 1))
       /\ (pc = "emit" /\ outcome' = "completed") => output = results
      ]_vars

\* C17: a run with a threshold has emitted, in the order of the feed, the two
\* different entries it retained.
C17_Witness ==
    /\ pc = "emit"
    /\ last_entry_date # None
    /\ Len(feed) = 2
    /\ Len(results) = 2
    /\ results[1] # results[2]
    /\ output = <<flatten_entry(feed[1]), flatten_entry(feed[2])>>

\* ======================================================= properties of get_feed
\* a <= b on dates: not later on the wall clock, tm_isdst breaking the tie.
NotLater(a, b) == a.t < b.t \/ (a.t = b.t /\ a.isdst <= b.isdst)

Excluded(entry, include_later_than) ==
    /\ get_updated_date(entry) # None
    /\ include_later_than # None
    /\ NotLater(get_updated_date(entry), include_later_than)

RECURSIVE Retained(_, _)
Retained(f, include_later_than) ==
    IF f = <<>> THEN <<>>
    ELSE (IF Excluded(Head(f), include_later_than) THEN <<>> ELSE <<flatten_entry(Head(f))>>)
         \o Retained(Tail(f), include_later_than)

\* C6: get_feed leaves out exactly the entries that have a date, when a
\* threshold is given, whose date is not later than the threshold; an entry
\* dated at the threshold is out, a later one and an undated one are in.
C6_ExcludesNotLater ==
    pc = "emit" => results = Retained(feed, last_entry_date)

\* C6: of an entry dated at the threshold and a later one, only the later is
\* returned.
C6_Witness ==
    /\ pc = "emit"
    /\ last_entry_date = struct_time(1, 0)
    /\ Len(feed) = 2
    /\ get_updated_date(feed[1]) = struct_time(1, 0)
    /\ get_updated_date(feed[2]) = struct_time(2, 0)
    /\ results = <<flatten_entry(feed[2])>>

\* C7: latest_date is the greatest date over all parsed entries, the excluded
\* ones too, and None exactly when no entry has a date.
C7_LatestOverAllEntries ==
    pc = "emit" =>
        /\ last_entry_date_retrieved = MaxEntryDate(feed)
        /\ (last_entry_date_retrieved = None) <=>
               (\A i \in DOMAIN feed : get_updated_date(feed[i]) = None)
        /\ \A i \in DOMAIN feed :
               get_updated_date(feed[i]) # None =>
                   ~TupleGT(get_updated_date(feed[i]), last_entry_date_retrieved)

\* C7: the entry with the greatest date is excluded, an undated entry is
\* returned, and latest_date is the date of the excluded entry.
C7_Witness ==
    /\ pc = "emit"
    /\ Len(feed) = 2
    /\ Len(results) = 1
    /\ \E i \in DOMAIN feed :
           /\ Excluded(feed[i], last_entry_date)
           /\ get_updated_date(feed[i]) = last_entry_date_retrieved

\* A timestamp the entry can be dated by: the field is there and is not None.
Usable(entry, field) == field \in DOMAIN entry /\ entry[field] # None

\* The date of the entry by priority: the usable updated timestamp, else the
\* usable published timestamp, else none.
CanonicalDate(entry) ==
    IF Usable(entry, "updated_parsed") THEN entry["updated_parsed"]
    ELSE IF Usable(entry, "published_parsed") THEN entry["published_parsed"]
    ELSE None

\* C11, as claimed: get_updated_date is the usable updated timestamp, else the
\* usable published timestamp, and None only when the entry has neither; so
\* latest_date of a feed of one entry is that date.
C11_UpdatedElsePublished ==
    pc = "emit" =>
        /\ \A i \in DOMAIN feed : get_updated_date(feed[i]) = CanonicalDate(feed[i])
        /\ Len(feed) = 1 => last_entry_date_retrieved = CanonicalDate(feed[1])

\* ======================================================= properties of flatten
\* {"a": {"b": 1, "c": [True, None]}}
Example ==
    PyDict(<< <<(<<"a">>),
                PyDict(<< <<(<<"b">>), PyInt(1)>>,
                          <<(<<"c">>), PyList(<<PyBool(TRUE), None>>)>> >>)>> >>)

\* {"a.b": "1", "a.c.0": True, "a.c.1": None}
ExampleFlattened ==
    (<<"a", ".", "b">> :> PyStr(<<"1">>))
    @@ (<<"a", ".", "c", ".", "0">> :> PyBool(TRUE))
    @@ (<<"a", ".", "c", ".", "1">> :> None)

\* C9, as claimed: what flatten stores is a boolean, None or a string (no
\* number is stored as it is), and the example flattens to the stated result.
C9_ScalarsStringified ==
    pc = "flattened" =>
        /\ \A k \in DOMAIN dictionary : dictionary[k].kind \in {"bool", "NoneType", "str"}
        /\ item = Example => dictionary = ExampleFlattened

\* The number of leaves of a value: the members, at any depth, that are
\* neither a dict nor a list.
RECURSIVE LeafCount(_)
RECURSIVE LeafCountOfSeq(_)
LeafCount(v) ==
    IF v.kind = "dict" THEN LeafCountOfSeq([i \in DOMAIN v.pairs |-> v.pairs[i][2]])
    ELSE IF v.kind = "list" THEN LeafCountOfSeq(v.items)
    ELSE 1

LeafCountOfSeq(vs) ==
    IF vs = <<>> THEN 0 ELSE LeafCount(Head(vs)) + LeafCountOfSeq(Tail(vs))

\* C16, as claimed: flatten stores one key for each leaf, no leaf overwriting
\* another, so the result has as many keys as the value has leaves, whatever
\* the keys of its dicts are.
C16_OneKeyPerLeaf ==
    pc = "flattened" => Cardinality(DOMAIN dictionary) = LeafCount(item)

\* ======================================================= properties of overlap
\* The date the second invocation hands to save_checkpoint.
OtherSavedDate ==
    IF other.last_entry_date_retrieved # None
       /\ PyGT(other.last_entry_date_retrieved, other.last_entry_date)
    THEN other.last_entry_date_retrieved
    ELSE other.last_entry_date

\* C18: nothing keeps a second invocation from loading the checkpoint while
\* the first is between its load and its save, and each save overwrites the
\* file with what the saving invocation computed from its own load: after a
\* save the file holds the date of the invocation that wrote last, whatever
\* the other invocation wrote before.
C18_LastWriterWins ==
    [][/\ (pc = "emit" /\ pc' = "idle") => HoldsDate(checkpoint', SavedDate)
       /\ (other.pc = "emit" /\ other'.pc = "idle") => HoldsDate(checkpoint', OtherSavedDate)
       /\ (other.pc = "idle" /\ other'.pc = "fetch") =>
              other'.checkpoint_data = get_checkpoint_data(checkpoint)
      ]_vars

\* C18: two invocations with include_only_changed loaded the same checkpoint,
\* both emitted the same dated entry and both have completed; the first saved
\* a later date than the file holds now, so the second wrote last and its
\* older date is what is persisted.
C18_Witness ==
    /\ pc = "idle" /\ outcome = "completed"
    /\ other.pc = "idle" /\ other.outcome = "completed"
    /\ include_only_changed /\ other.include_only_changed
    /\ checkpoint_data = other.checkpoint_data
    /\ Range(output) \cap Range(other.output) \cap DatedEvents # {}
    /\ TupleGT(SavedDate, OtherSavedDate)
    /\ HoldsDate(checkpoint, OtherSavedDate)

====
